---- MODULE Spec2Model ----
\* State-machine model of layers/gpu/cmd_validation/gpuav_cmd_validation_common.cpp:
\* BindValidationCmdsCommonDescSet, RestorablePipelineState::Create / Restore and
\* GetBufferDeviceAddress, together with the two things they talk to: the tracked
\* state of the command buffer (vvl::CommandBuffer, read by Create) and the
\* command stream handed to the driver by the Dispatch* calls.
EXTENDS Integers, Sequences, FiniteSets, TLC

VARIABLES
    lastBound,                  \* cb_state.lastBound[lv_bind_point] (tracked state)
    push_constant_data,         \* cb_state.push_constant_data (bytes, indexed by absolute offset)
    push_constant_data_ranges,  \* cb_state.push_constant_data_ranges (<<>> = never set)
    dev,                        \* binding state the recorded commands produce in the driver
    snap,                       \* the RestorablePipelineState object
    emitted,                    \* commands dispatched by the last operation
    pre,                        \* dev as it was when Create last ran
    pc,                         \* position of the instrumentation call
    args,                       \* arguments of the last operation
    gpuav,                      \* the Validator fields GetBufferDeviceAddress reads
    addr,                       \* last GetBufferDeviceAddress call: buffer, dispatches, result
    lock,                       \* holder of the command buffer's write lock
    captured                    \* the tracked state Create last read

vars == <<lastBound, push_constant_data, push_constant_data_ranges, dev, snap, emitted, pre, pc, args, gpuav, addr,
          lock, captured>>

-----------------------------------------------------------------------------
\* Bounds of the model

MaxSets == 2        \* longest last_bound.per_set
MaxRanges == 2      \* most push-constant ranges in one pipeline layout
MaxRestores == 2    \* most Restore calls on one snapshot

-----------------------------------------------------------------------------
\* Handles and constants

VK_NULL_HANDLE == 0

VK_PIPELINE_BIND_POINT_GRAPHICS == 0
VK_PIPELINE_BIND_POINT_COMPUTE == 1
VK_PIPELINE_BIND_POINT_RAY_TRACING_KHR == 1000165000
VkBindPoints == {VK_PIPELINE_BIND_POINT_GRAPHICS, VK_PIPELINE_BIND_POINT_COMPUTE,
                 VK_PIPELINE_BIND_POINT_RAY_TRACING_KHR}

BindPoint_Graphics == 0
BindPoint_Compute == 1
BindPoint_Ray_Tracing == 2
LvlBindPoints == {BindPoint_Graphics, BindPoint_Compute, BindPoint_Ray_Tracing}

ConvertToLvlBindPoint(bind_point) ==
    IF bind_point = VK_PIPELINE_BIND_POINT_RAY_TRACING_KHR THEN BindPoint_Ray_Tracing
    ELSE bind_point

VK_SHADER_STAGE_VERTEX_BIT == 1
VK_SHADER_STAGE_FRAGMENT_BIT == 16
VK_SHADER_STAGE_COMPUTE_BIT == 32
\* graphics stages in the order of the ShaderObjectStage enumeration
GraphicsStages == <<VK_SHADER_STAGE_VERTEX_BIT, VK_SHADER_STAGE_FRAGMENT_BIT>>
AllStages == {VK_SHADER_STAGE_VERTEX_BIT, VK_SHADER_STAGE_FRAGMENT_BIT, VK_SHADER_STAGE_COMPUTE_BIT}

kDiagCommonDescriptorSet == 0   \* glsl::kDiagCommonDescriptorSet, the reserved set index
indices_count == 8192           \* cst::indices_count
WordSize == 4                   \* sizeof(uint32_t)

CmdBuffer == 1                  \* the VkCommandBuffer handle
AppPipeline == 1                \* handles the application bound
AppLayout == 1
AppSet == 1                     \* a descriptor set bound with one dynamic offset
AppSet2 == 2                    \* a descriptor set bound without dynamic offsets
ShaderHandleBase == 100
AppShader(stage) == ShaderHandleBase + stage
AppWrite == 5                   \* one recorded VkWriteDescriptorSet of a push descriptor set
AppOffset == 4                  \* a dynamic offset the application bound a set with
DiagPipeline == 9               \* handles of the diagnostic layer
DiagLayout == 9
DiagSet == 9                    \* cmd_buffer_state->GetValidationCmdCommonDescriptorSet()
DiagByte == 99                  \* a byte the diagnostic commands push

\* number of set indices the driver-side binding table keeps
NumSlots == IF MaxSets > kDiagCommonDescriptorSet + 1 THEN MaxSets ELSE kDiagCommonDescriptorSet + 1
Slots == 0 .. (NumSlots - 1)

-----------------------------------------------------------------------------
\* Push-constant ranges (VkPushConstantRange) and layouts' range lists

Range(flags, off, size) == [stageFlags |-> flags, offset |-> off, size |-> size]

\* candidate ranges, listed in the canonical (sorted) order of a PushConstantRangesId
RangePool == << Range(VK_SHADER_STAGE_VERTEX_BIT, 0, 0),
                Range(VK_SHADER_STAGE_VERTEX_BIT, 0, 1),
                Range(VK_SHADER_STAGE_FRAGMENT_BIT, 1, 1) >>

RECURSIVE PickRanges(_, _)
\* the sub-list of RangePool[k..] whose members are in the set S
PickRanges(S, k) ==
    IF k > Len(RangePool) THEN <<>>
    ELSE IF RangePool[k] \in S THEN <<RangePool[k]>> \o PickRanges(S, k + 1)
    ELSE PickRanges(S, k + 1)

RangeLists == { PickRanges(S, 1) :
                  S \in { T \in SUBSET { RangePool[k] : k \in 1..Len(RangePool) } : Cardinality(T) <= MaxRanges } }

Max(a, b) == IF a >= b THEN a ELSE b

RECURSIVE SizeNeeded(_, _)
\* bytes cb_state.push_constant_data holds for a range list: max over ranges of offset + size
SizeNeeded(ranges, k) ==
    IF k > Len(ranges) THEN 0
    ELSE Max(ranges[k].offset + ranges[k].size, SizeNeeded(ranges, k + 1))

PushBytes == SizeNeeded(RangePool, 1)   \* bytes of push-constant storage in the driver
ByteBase == 10
AppByte(i) == ByteBase + i    \* the byte the application last pushed at offset i

-----------------------------------------------------------------------------
\* Tracked state: LastBound, per_set entries, shader objects.
\* A pointer is a sequence: <<>> is nullptr, <<x>> points at x.

NoPerSet == [bound_descriptor_set |-> <<>>, dynamicOffsets |-> <<>>]
\* vvl::DescriptorSet: a push descriptor set has no Vulkan handle
NormalSet(handle, offsets) ==
    [bound_descriptor_set |-> <<[handle |-> handle, push |-> FALSE]>>, dynamicOffsets |-> offsets]
PushSet ==
    [bound_descriptor_set |-> <<[handle |-> VK_NULL_HANDLE, push |-> TRUE]>>, dynamicOffsets |-> <<>>]

VkHandle(obj) == obj.handle
IsPushDescriptor(ds) == ds.push
GetWrites(pds) == pds.writes
PipelineLayoutState(pipe) == [push_constant_ranges |-> pipe.push_constant_ranges]

NoShaders == [st \in AllStages |-> <<>>]
ShaderObject(stage) == [stage |-> stage, handle |-> AppShader(stage)]

EmptyLastBound ==
    [pipeline_state |-> <<>>, pipeline_layout |-> VK_NULL_HANDLE, per_set |-> <<>>,
     push_descriptor_set |-> <<>>, shader_object_states |-> NoShaders]

GetShaderState(last_bound, stage) == last_bound.shader_object_states[stage]

RECURSIVE GetAllBoundGraphicsShaders_from(_, _)
GetAllBoundGraphicsShaders_from(last_bound, k) ==
    IF k > Len(GraphicsStages) THEN <<>>
    ELSE (IF GetShaderState(last_bound, GraphicsStages[k]) # <<>>
          THEN <<GetShaderState(last_bound, GraphicsStages[k])[1]>> ELSE <<>>)
         \o GetAllBoundGraphicsShaders_from(last_bound, k + 1)

GetAllBoundGraphicsShaders(last_bound) == GetAllBoundGraphicsShaders_from(last_bound, 1)

-----------------------------------------------------------------------------
\* RestorablePipelineState

EmptySnapshot ==
    [cmd_buffer_ |-> VK_NULL_HANDLE, pipeline_bind_point_ |-> VK_PIPELINE_BIND_POINT_GRAPHICS,
     pipeline_ |-> VK_NULL_HANDLE, pipeline_layout |-> VK_NULL_HANDLE,
     descriptor_sets_ |-> <<>>, dynamic_offsets_ |-> <<>>,
     push_descriptor_set_index_ |-> 0, push_descriptor_set_writes_ |-> <<>>,
     push_constants_data_ |-> <<>>, push_constants_ranges_ |-> <<>>,
     shader_objects_ |-> <<>>]

RECURSIVE CaptureSets(_, _, _)
\* the loop over last_bound.per_set, from (0-based) index i on, applied to snapshot s
CaptureSets(s, per_set, i) ==
    IF i >= Len(per_set) THEN s
    ELSE LET bound_descriptor_set == per_set[i + 1].bound_descriptor_set
         IN IF bound_descriptor_set # <<>>
            THEN CaptureSets(
                   [s EXCEPT !.descriptor_sets_ =
                                 Append(@, [first |-> VkHandle(bound_descriptor_set[1]), second |-> i]),
                             !.push_descriptor_set_index_ =
                                 IF IsPushDescriptor(bound_descriptor_set[1]) THEN i ELSE @,
                             !.dynamic_offsets_ = Append(@, per_set[i + 1].dynamicOffsets)],
                   per_set, i + 1)
            ELSE CaptureSets(s, per_set, i + 1)

\* the push-descriptor writes of the snapshot
CaptureWrites(last_bound) ==
    IF last_bound.push_descriptor_set # <<>> THEN GetWrites(last_bound.push_descriptor_set[1]) ELSE <<>>

\* a Create that copies the push constants without comparing the ranges
CapturePushConstants_Unchecked(pipe, data, data_ranges) ==
    <<data, <<PipelineLayoutState(pipe).push_constant_ranges>> >>

\* the push-constant part of the snapshot: <<data, ranges pointer>>
CapturePushConstants(pipe, data, data_ranges) ==
    IF <<PipelineLayoutState(pipe).push_constant_ranges>> = data_ranges
    THEN <<data, <<PipelineLayoutState(pipe).push_constant_ranges>> >>
    ELSE << <<>>, <<>> >>

\* a shader-object branch without its compute case
CaptureShaders_NoCompute(last_bound, lv_bind_point) ==
    IF lv_bind_point = BindPoint_Graphics THEN GetAllBoundGraphicsShaders(last_bound) ELSE <<>>

\* the shader-object branch of Create
CaptureShaders(last_bound, lv_bind_point) ==
    IF lv_bind_point = BindPoint_Graphics THEN GetAllBoundGraphicsShaders(last_bound)
    ELSE IF lv_bind_point = BindPoint_Compute
         THEN (IF GetShaderState(last_bound, VK_SHADER_STAGE_COMPUTE_BIT) # <<>>
               THEN <<GetShaderState(last_bound, VK_SHADER_STAGE_COMPUTE_BIT)[1]>> ELSE <<>>)
         ELSE <<>>

\* the pipeline branch of Create, applied to snapshot s0
CapturePipeline(s0, last_bound, data, data_ranges) ==
    LET pipe == last_bound.pipeline_state[1]
        s1 == CaptureSets([s0 EXCEPT !.pipeline_ = VkHandle(pipe),
                                     !.pipeline_layout = last_bound.pipeline_layout],
                          last_bound.per_set, 0)
        pcs == CapturePushConstants(pipe, data, data_ranges)
    IN [s1 EXCEPT !.push_descriptor_set_writes_ = CaptureWrites(last_bound),
                  !.push_constants_data_ = pcs[1],
                  !.push_constants_ranges_ = pcs[2]]

\* a Create whose shader-object capture is not in the else branch
CreateSnapshot_NoElse(all_last_bound, data, data_ranges, bind_point) ==
    LET lv_bind_point == ConvertToLvlBindPoint(bind_point)
        last_bound == all_last_bound[lv_bind_point]
        s0 == [EmptySnapshot EXCEPT !.cmd_buffer_ = CmdBuffer, !.pipeline_bind_point_ = bind_point]
        s1 == IF last_bound.pipeline_state # <<>>
              THEN CapturePipeline(s0, last_bound, data, data_ranges) ELSE s0
    IN [s1 EXCEPT !.shader_objects_ = CaptureShaders(last_bound, lv_bind_point)]

\* RestorablePipelineState::Create on a freshly constructed object
CreateSnapshot(all_last_bound, data, data_ranges, bind_point) ==
    LET lv_bind_point == ConvertToLvlBindPoint(bind_point)
        last_bound == all_last_bound[lv_bind_point]
        s0 == [EmptySnapshot EXCEPT !.cmd_buffer_ = CmdBuffer, !.pipeline_bind_point_ = bind_point]
    IN IF last_bound.pipeline_state # <<>>
       THEN CapturePipeline(s0, last_bound, data, data_ranges)
       ELSE [s0 EXCEPT !.shader_objects_ = CaptureShaders(last_bound, lv_bind_point)]

-----------------------------------------------------------------------------
\* Commands handed to the driver by the Dispatch* calls

CmdBindPipeline(cb, bind_point, pipeline) ==
    [op |-> "BindPipeline", commandBuffer |-> cb, bind_point |-> bind_point, pipeline |-> pipeline]
CmdBindDescriptorSets(cb, bind_point, layout, firstSet, sets, offsets) ==
    [op |-> "BindDescriptorSets", commandBuffer |-> cb, bind_point |-> bind_point, layout |-> layout,
     firstSet |-> firstSet, sets |-> sets, dynamicOffsets |-> offsets]
CmdPushDescriptorSet(cb, bind_point, layout, set, writes) ==
    [op |-> "PushDescriptorSet", commandBuffer |-> cb, bind_point |-> bind_point, layout |-> layout,
     set |-> set, writes |-> writes]
\* pValues is a pointer: the driver reads size bytes starting at data[from] (0-based)
CmdPushConstants(cb, layout, stageFlags, offset, size, data, from) ==
    [op |-> "PushConstants", commandBuffer |-> cb, layout |-> layout, stageFlags |-> stageFlags,
     offset |-> offset, size |-> size, values |-> [k \in 1..size |-> data[from + k]]]
CmdBindShaders(cb, stages, shaders) ==
    [op |-> "BindShaders", commandBuffer |-> cb, stages |-> stages, shaders |-> shaders]

-----------------------------------------------------------------------------
\* RestorablePipelineState::Restore: the commands it dispatches, in order

RECURSIVE RestoreSets_NoNullCheck(_, _)
\* a Restore that rebinds every captured entry, null handle or not
RestoreSets_NoNullCheck(s, i) ==
    IF i >= Len(s.descriptor_sets_) THEN <<>>
    ELSE <<CmdBindDescriptorSets(s.cmd_buffer_, s.pipeline_bind_point_, s.pipeline_layout,
                                 s.descriptor_sets_[i + 1].second, <<s.descriptor_sets_[i + 1].first>>,
                                 s.dynamic_offsets_[i + 1])>>
         \o RestoreSets_NoNullCheck(s, i + 1)

RECURSIVE RestoreSets(_, _)
RestoreSets(s, i) ==
    IF i >= Len(s.descriptor_sets_) THEN <<>>
    ELSE LET descriptor_set == s.descriptor_sets_[i + 1].first
         IN (IF descriptor_set # VK_NULL_HANDLE
             THEN <<CmdBindDescriptorSets(s.cmd_buffer_, s.pipeline_bind_point_, s.pipeline_layout,
                                          s.descriptor_sets_[i + 1].second, <<descriptor_set>>,
                                          s.dynamic_offsets_[i + 1])>>
             ELSE <<>>)
            \o RestoreSets(s, i + 1)

RestorePushDescriptors(s) ==
    IF s.push_descriptor_set_writes_ # <<>>
    THEN <<CmdPushDescriptorSet(s.cmd_buffer_, s.pipeline_bind_point_, s.pipeline_layout,
                                s.push_descriptor_set_index_, s.push_descriptor_set_writes_)>>
    ELSE <<>>

RECURSIVE RestoreRanges_NoSkip(_, _, _)
\* a Restore that pushes every range, zero-size or not
RestoreRanges_NoSkip(s, ranges, k) ==
    IF k > Len(ranges) THEN <<>>
    ELSE <<CmdPushConstants(s.cmd_buffer_, s.pipeline_layout, ranges[k].stageFlags,
                            ranges[k].offset, ranges[k].size, s.push_constants_data_, 0)>>
         \o RestoreRanges_NoSkip(s, ranges, k + 1)

RECURSIVE RestoreRanges(_, _, _)
RestoreRanges(s, ranges, k) ==
    IF k > Len(ranges) THEN <<>>
    ELSE (IF ranges[k].size = 0 THEN <<>>
          ELSE <<CmdPushConstants(s.cmd_buffer_, s.pipeline_layout, ranges[k].stageFlags,
                                  ranges[k].offset, ranges[k].size, s.push_constants_data_, 0)>>)
         \o RestoreRanges(s, ranges, k + 1)

RestorePushConstants(s) ==
    IF s.push_constants_data_ # <<>> THEN RestoreRanges(s, s.push_constants_ranges_[1], 1) ELSE <<>>

\* a Restore that binds the captured shader objects one command each
RestoreShaders_OneEach(s) ==
    [k \in 1..Len(s.shader_objects_) |->
        CmdBindShaders(s.cmd_buffer_, <<s.shader_objects_[k].stage>>, <<VkHandle(s.shader_objects_[k])>>)]

RestoreShaders(s) ==
    IF s.shader_objects_ # <<>>
    THEN <<CmdBindShaders(s.cmd_buffer_,
                          [k \in 1..Len(s.shader_objects_) |-> s.shader_objects_[k].stage],
                          [k \in 1..Len(s.shader_objects_) |-> VkHandle(s.shader_objects_[k])])>>
    ELSE <<>>

\* a Restore that replays the push constants before it rebinds the pipeline
RestoreCmds_PushConstantsFirst(s) ==
    (IF s.pipeline_ # VK_NULL_HANDLE
     THEN RestorePushConstants(s)
          \o <<CmdBindPipeline(s.cmd_buffer_, s.pipeline_bind_point_, s.pipeline_)>>
          \o RestoreSets(s, 0) \o RestorePushDescriptors(s)
     ELSE <<>>)
    \o RestoreShaders(s)

\* a Restore that rebinds the captured pipeline handle without looking at it
RestoreCmds_NoPipelineCheck(s) ==
    <<CmdBindPipeline(s.cmd_buffer_, s.pipeline_bind_point_, s.pipeline_)>>
    \o RestoreSets(s, 0) \o RestorePushDescriptors(s) \o RestorePushConstants(s)
    \o RestoreShaders(s)

RestoreCmds(s) ==
    (IF s.pipeline_ # VK_NULL_HANDLE
     THEN <<CmdBindPipeline(s.cmd_buffer_, s.pipeline_bind_point_, s.pipeline_)>>
          \o RestoreSets(s, 0) \o RestorePushDescriptors(s) \o RestorePushConstants(s)
     ELSE <<>>)
    \o RestoreShaders(s)

\* BindValidationCmdsCommonDescSet: the two dynamic offsets (uint32_t arithmetic; the
\* modulus 2^32 is applied as (index mod 2^30) * 4, which is the same value)
TwoPow30 == 1073741824
MulWordSize(index) == (index % TwoPow30) * WordSize
\* the two offsets in the wrong order
DiagDynamicOffsets_Swapped(cmd_index, error_logger_index) ==
    <<MulWordSize(error_logger_index), MulWordSize(cmd_index)>>

DiagDynamicOffsets(cmd_index, error_logger_index) ==
    <<MulWordSize(cmd_index), MulWordSize(error_logger_index)>>

BindValidationCmds(bind_point, pipeline_layout, cmd_index, error_logger_index) ==
    <<CmdBindDescriptorSets(CmdBuffer, bind_point, pipeline_layout, kDiagCommonDescriptorSet,
                            <<DiagSet>>, DiagDynamicOffsets(cmd_index, error_logger_index))>>

-----------------------------------------------------------------------------
\* The driver's binding state of the command buffer and the effect of each command

NoSlot == [set |-> VK_NULL_HANDLE, dynamicOffsets |-> <<>>, writes |-> <<>>]

StageBindPoint(stage) ==
    IF stage = VK_SHADER_STAGE_COMPUTE_BIT THEN VK_PIPELINE_BIND_POINT_COMPUTE
    ELSE VK_PIPELINE_BIND_POINT_GRAPHICS

\* one command applied to binding state d
Apply(d, c) ==
    CASE c.op = "BindPipeline" ->
           \* a pipeline takes the place of the shader objects of its bind point
           [d EXCEPT !.pipeline[c.bind_point] = c.pipeline,
                     !.shaders = [st \in AllStages |->
                                    IF StageBindPoint(st) = c.bind_point THEN VK_NULL_HANDLE ELSE @[st]]]
      [] c.op = "BindDescriptorSets" ->
           [d EXCEPT !.slots[c.bind_point] =
               [i \in Slots |->
                  IF i >= c.firstSet /\ i < c.firstSet + Len(c.sets)
                  THEN [set |-> c.sets[i - c.firstSet + 1], dynamicOffsets |-> c.dynamicOffsets,
                        writes |-> <<>>]
                  ELSE @[i]]]
      [] c.op = "PushDescriptorSet" ->
           [d EXCEPT !.slots[c.bind_point][c.set] =
               [set |-> VK_NULL_HANDLE, dynamicOffsets |-> <<>>, writes |-> c.writes]]
      [] c.op = "PushConstants" ->
           [d EXCEPT !.push_constants =
               [i \in 0..(PushBytes - 1) |->
                  IF i >= c.offset /\ i < c.offset + c.size THEN c.values[i - c.offset + 1] ELSE @[i]]]
      [] c.op = "BindShaders" ->
           \* shader objects take the place of the pipeline of their bind point
           [d EXCEPT !.shaders = [st \in AllStages |->
                                    IF \E k \in 1..Len(c.stages) : c.stages[k] = st
                                    THEN c.shaders[CHOOSE k \in 1..Len(c.stages) : c.stages[k] = st]
                                    ELSE @[st]],
                     !.pipeline = [bp \in VkBindPoints |->
                                    IF \E k \in 1..Len(c.stages) : StageBindPoint(c.stages[k]) = bp
                                    THEN VK_NULL_HANDLE ELSE @[bp]]]

RECURSIVE ApplyAll(_, _, _)
ApplyAll(d, cmds, k) == IF k > Len(cmds) THEN d ELSE ApplyAll(Apply(d, cmds[k]), cmds, k + 1)

\* the driver's state after the application's own commands, which the tracked state mirrors
DevOf(all_last_bound, data) ==
    [pipeline |-> [bp \in VkBindPoints |->
                     LET lb == all_last_bound[ConvertToLvlBindPoint(bp)]
                     IN IF lb.pipeline_state # <<>> THEN VkHandle(lb.pipeline_state[1]) ELSE VK_NULL_HANDLE],
     slots |-> [bp \in VkBindPoints |->
                  LET lb == all_last_bound[ConvertToLvlBindPoint(bp)]
                  IN [i \in Slots |->
                        IF i < Len(lb.per_set) /\ lb.per_set[i + 1].bound_descriptor_set # <<>>
                        THEN LET ds == lb.per_set[i + 1].bound_descriptor_set[1]
                             IN IF IsPushDescriptor(ds)
                                THEN [set |-> VK_NULL_HANDLE, dynamicOffsets |-> <<>>,
                                      writes |-> GetWrites(lb.push_descriptor_set[1])]
                                ELSE [set |-> VkHandle(ds),
                                      dynamicOffsets |-> lb.per_set[i + 1].dynamicOffsets,
                                      writes |-> <<>>]
                        ELSE NoSlot]],
     shaders |-> [st \in AllStages |->
                    LET lb == all_last_bound[ConvertToLvlBindPoint(StageBindPoint(st))]
                    IN IF lb.pipeline_state = <<>> /\ GetShaderState(lb, st) # <<>>
                       THEN VkHandle(GetShaderState(lb, st)[1]) ELSE VK_NULL_HANDLE],
     push_constants |-> [i \in 0..(PushBytes - 1) |-> IF i < Len(data) THEN data[i + 1] ELSE 0]]

-----------------------------------------------------------------------------
\* GetBufferDeviceAddress

VK_API_VERSION_1_0 == 4194304
VK_API_VERSION_1_1 == 4198400
VK_API_VERSION_1_2 == 4202496
VK_API_VERSION_1_3 == 4206592
ApiVersions == {VK_API_VERSION_1_0, VK_API_VERSION_1_1, VK_API_VERSION_1_2, VK_API_VERSION_1_3}

ExtEnabledValues == {"kNotEnabled", "kEnabledByCreateinfo", "kEnabledByApiLevel"}
IsExtEnabled(extension) == extension # "kNotEnabled"

Buffers == {1, 2, 3}
PageSize == 4096
\* the address the driver reports for a buffer: never 0 for a valid buffer
DriverAddress(buffer) == buffer * PageSize

NoAddr == [buffer |-> VK_NULL_HANDLE, calls |-> <<>>, result |-> 0]
DefaultGpuav ==
    [api_version |-> VK_API_VERSION_1_0, vk_ext_buffer_device_address |-> "kNotEnabled",
     vk_khr_buffer_device_address |-> "kNotEnabled"]

\* a resolver that forgets the last tier
GetBufferDeviceAddress_NoKHR(g, buffer) ==
    IF g.api_version >= VK_API_VERSION_1_2
    THEN [buffer |-> buffer, calls |-> <<"DispatchGetBufferDeviceAddress">>, result |-> DriverAddress(buffer)]
    ELSE IF IsExtEnabled(g.vk_ext_buffer_device_address)
    THEN [buffer |-> buffer, calls |-> <<"DispatchGetBufferDeviceAddressEXT">>, result |-> DriverAddress(buffer)]
    ELSE [buffer |-> buffer, calls |-> <<>>, result |-> 0]

\* the call's outcome: which Dispatch* were made and what is returned
GetBufferDeviceAddress(g, buffer) ==
    IF g.api_version >= VK_API_VERSION_1_2
    THEN [buffer |-> buffer, calls |-> <<"DispatchGetBufferDeviceAddress">>, result |-> DriverAddress(buffer)]
    ELSE IF IsExtEnabled(g.vk_ext_buffer_device_address)
    THEN [buffer |-> buffer, calls |-> <<"DispatchGetBufferDeviceAddressEXT">>, result |-> DriverAddress(buffer)]
    ELSE IF IsExtEnabled(g.vk_khr_buffer_device_address)
    THEN [buffer |-> buffer, calls |-> <<"DispatchGetBufferDeviceAddressKHR">>, result |-> DriverAddress(buffer)]
    ELSE [buffer |-> buffer, calls |-> <<>>, result |-> 0]

-----------------------------------------------------------------------------
\* Initial states: a command buffer the application has recorded into

PerSetEntries == {NoPerSet, NormalSet(AppSet, <<AppOffset>>), NormalSet(AppSet2, <<>>), PushSet}
PushCount(per_set) == Cardinality({i \in 1..Len(per_set) : per_set[i] = PushSet})
\* at most one entry of per_set is the push descriptor set of the bind point
PerSetLists ==
    { ps \in UNION { [1..n -> PerSetEntries] : n \in 0..MaxSets } : PushCount(ps) <= 1 }

PipelineStates ==
    {<<>>} \cup { <<[handle |-> AppPipeline, push_constant_ranges |-> r]>> : r \in RangeLists }

\* shader objects a bind point's LastBound can hold
ShaderStates(lv) ==
    IF lv = BindPoint_Graphics
    THEN { [st \in AllStages |-> IF st \in S THEN <<ShaderObject(st)>> ELSE <<>>] :
           S \in SUBSET {VK_SHADER_STAGE_VERTEX_BIT, VK_SHADER_STAGE_FRAGMENT_BIT} }
    ELSE IF lv = BindPoint_Compute
    THEN { NoShaders,
           [st \in AllStages |-> IF st = VK_SHADER_STAGE_COMPUTE_BIT THEN <<ShaderObject(st)>> ELSE <<>>] }
    ELSE { NoShaders }

LastBounds(lv) ==
    { [pipeline_state |-> p,
       pipeline_layout |-> IF ps = <<>> THEN VK_NULL_HANDLE ELSE AppLayout,
       per_set |-> ps,
       push_descriptor_set |-> IF PushCount(ps) = 1 THEN <<[writes |-> <<AppWrite>>]>> ELSE <<>>,
       shader_object_states |-> sh] :
      p \in PipelineStates, ps \in PerSetLists, sh \in ShaderStates(lv) }

InRange(ranges, i) == \E k \in 1..Len(ranges) : i >= ranges[k].offset /\ i < ranges[k].offset + ranges[k].size
\* push_constant_data after the application pushed every byte its ranges cover
PushedData(ranges) == [k \in 1..SizeNeeded(ranges, 1) |-> IF InRange(ranges, k - 1) THEN AppByte(k - 1) ELSE 0]

InitCommandBuffer ==
    /\ \E b \in LvlBindPoints : \E lb \in LastBounds(b) :
          lastBound = [l \in LvlBindPoints |-> IF l = b THEN lb ELSE EmptyLastBound]
    /\ \/ push_constant_data_ranges = <<>> /\ push_constant_data = <<>>
       \/ \E r \in RangeLists : push_constant_data_ranges = <<r>> /\ push_constant_data = PushedData(r)
    /\ dev = DevOf(lastBound, push_constant_data)
    /\ snap = EmptySnapshot
    /\ emitted = <<>>
    /\ pre = dev
    /\ pc = <<>>
    /\ args = <<>>
    /\ captured = <<>>

Init ==
    /\ InitCommandBuffer
    /\ gpuav = DefaultGpuav
    /\ addr = NoAddr
    /\ lock = "gpuav"

-----------------------------------------------------------------------------
\* Operations

cb_vars == <<lastBound, push_constant_data, push_constant_data_ranges>>

\* the model instruments the bind point the application recorded into
Instrumented(bind_point) ==
    \A l \in LvlBindPoints \ {ConvertToLvlBindPoint(bind_point)} : lastBound[l] = EmptyLastBound

\* Create only reads cb_state: here it moves the push-constant bytes out of it
Create_MovesData(bind_point) ==
    /\ pc = <<>> \/ pc = <<"Create", "Bind">>
    /\ lock = "gpuav"
    /\ Instrumented(bind_point)
    /\ pc = <<"Create", "Bind">> => bind_point = snap.pipeline_bind_point_
    /\ snap' = CreateSnapshot(lastBound, push_constant_data, push_constant_data_ranges, bind_point)
    /\ push_constant_data' = IF snap'.push_constants_data_ # <<>> THEN <<>> ELSE push_constant_data
    /\ emitted' = <<>>
    /\ pre' = dev
    /\ pc' = Append(pc, "Create")
    /\ args' = [bind_point |-> bind_point]
    /\ captured' = <<lastBound, push_constant_data, push_constant_data_ranges, bind_point>>
    /\ UNCHANGED <<lastBound, push_constant_data_ranges, dev, gpuav, addr, lock>>

Create(bind_point) ==
    /\ pc = <<>> \/ pc = <<"Create", "Bind">>
    /\ lock = "gpuav"
    /\ Instrumented(bind_point)
    /\ pc = <<"Create", "Bind">> => bind_point = snap.pipeline_bind_point_
    /\ snap' = CreateSnapshot(lastBound, push_constant_data, push_constant_data_ranges, bind_point)
    /\ emitted' = <<>>
    /\ pre' = dev
    /\ pc' = Append(pc, "Create")
    /\ args' = [bind_point |-> bind_point]
    /\ captured' = <<lastBound, push_constant_data, push_constant_data_ranges, bind_point>>
    /\ UNCHANGED <<cb_vars, dev, gpuav, addr, lock>>

IndexValues == {0, indices_count - 1}

BindValidationCmdsCommonDescSet(cmd_index, error_logger_index) ==
    /\ pc = <<"Create">> \/ pc = <<"Create", "Diagnostic">>
    /\ lock = "gpuav"     \* cb_state is a LockedSharedPtr<CommandBuffer, WriteLockGuard>
    /\ cmd_index < indices_count
    /\ error_logger_index < indices_count
    /\ emitted' = BindValidationCmds(snap.pipeline_bind_point_, DiagLayout, cmd_index, error_logger_index)
    /\ dev' = ApplyAll(dev, emitted', 1)
    /\ pc' = Append(pc, "Bind")
    /\ args' = [bind_point |-> snap.pipeline_bind_point_, pipeline_layout |-> DiagLayout,
                 cmd_index |-> cmd_index, error_logger_index |-> error_logger_index]
    /\ UNCHANGED <<cb_vars, snap, pre, gpuav, addr, lock, captured>>

\* the caller's own diagnostic commands: its pipeline and, possibly, its push constants
DiagnosticCmds(bind_point, push) ==
    <<CmdBindPipeline(CmdBuffer, bind_point, DiagPipeline)>>
    \o (IF push
        THEN <<CmdPushConstants(CmdBuffer, DiagLayout, VK_SHADER_STAGE_COMPUTE_BIT, 0, PushBytes,
                                [k \in 1..PushBytes |-> DiagByte], 0)>>
        ELSE <<>>)

Diagnostic(push) ==
    /\ pc = <<"Create">>
    /\ lock = "gpuav"
    /\ emitted' = DiagnosticCmds(snap.pipeline_bind_point_, push)
    /\ dev' = ApplyAll(dev, emitted', 1)
    /\ pc' = Append(pc, "Diagnostic")
    /\ args' = [push |-> push]
    /\ UNCHANGED <<cb_vars, snap, pre, gpuav, addr, lock, captured>>

\* how many times the call sequence ran an operation
Count(seq, name) == Cardinality({ k \in 1..Len(seq) : seq[k] = name })

\* Restore mutates nothing of the snapshot (it is a const member function)
Restore_Consuming ==
    /\ pc # <<>>
    /\ pc[1] = "Create"
    /\ Count(pc, "Restore") < MaxRestores
    /\ Count(pc, "Restore") > 0 => Count(pc, "Bind") = 0
    /\ lock = "gpuav"
    /\ emitted' = RestoreCmds(snap)
    /\ dev' = ApplyAll(dev, emitted', 1)
    /\ snap' = [snap EXCEPT !.pipeline_ = VK_NULL_HANDLE, !.shader_objects_ = <<>>]
    /\ pc' = Append(pc, "Restore")
    /\ args' = <<>>
    /\ UNCHANGED <<cb_vars, pre, gpuav, addr, lock, captured>>

\* a Restore that reads the command buffer's tracked state again when it replays
Restore_Recapture ==
    /\ pc # <<>>
    /\ pc[1] = "Create"
    /\ Count(pc, "Restore") < MaxRestores
    /\ Count(pc, "Restore") > 0 => Count(pc, "Bind") = 0
    /\ lock = "gpuav"
    /\ emitted' = RestoreCmds(CreateSnapshot(lastBound, push_constant_data, push_constant_data_ranges,
                                             snap.pipeline_bind_point_))
    /\ dev' = ApplyAll(dev, emitted', 1)
    /\ pc' = Append(pc, "Restore")
    /\ args' = <<>>
    /\ UNCHANGED <<cb_vars, snap, pre, gpuav, addr, lock, captured>>

\* a repeated Restore is explored on the call sequences without the diagnostic bind
Restore ==
    /\ pc # <<>>
    /\ pc[1] = "Create"
    /\ Count(pc, "Restore") < MaxRestores
    /\ Count(pc, "Restore") > 0 => Count(pc, "Bind") = 0
    /\ lock = "gpuav"
    /\ emitted' = RestoreCmds(snap)
    /\ dev' = ApplyAll(dev, emitted', 1)
    /\ pc' = Append(pc, "Restore")
    /\ args' = <<>>
    /\ UNCHANGED <<cb_vars, snap, pre, gpuav, addr, lock, captured>>

Next ==
    \/ \E bind_point \in VkBindPoints : Create(bind_point)
    \/ \E cmd_index \in IndexValues, error_logger_index \in IndexValues :
          BindValidationCmdsCommonDescSet(cmd_index, error_logger_index)
    \/ \E push \in BOOLEAN : Diagnostic(push)
    \/ Restore

Spec == Init /\ [][Next]_vars

\* GetBufferDeviceAddress on every Validator configuration
InitAddr ==
    /\ lastBound = [l \in LvlBindPoints |-> EmptyLastBound]
    /\ push_constant_data_ranges = <<>>
    /\ push_constant_data = <<>>
    /\ dev = DevOf(lastBound, push_constant_data)
    /\ snap = EmptySnapshot
    /\ emitted = <<>>
    /\ pre = dev
    /\ pc = <<>>
    /\ args = <<>>
    /\ gpuav \in [api_version : ApiVersions, vk_ext_buffer_device_address : ExtEnabledValues,
                  vk_khr_buffer_device_address : ExtEnabledValues]
    /\ addr = NoAddr
    /\ lock = "gpuav"
    /\ captured = <<>>

ResolveAddress(buffer) ==
    /\ addr' = GetBufferDeviceAddress(gpuav, buffer)
    /\ pc' = <<"GetBufferDeviceAddress">>
    /\ args' = [buffer |-> buffer]
    /\ UNCHANGED <<cb_vars, dev, snap, emitted, pre, gpuav, lock, captured>>

NextAddr == \E buffer \in Buffers : ResolveAddress(buffer)

SpecAddr == InitAddr /\ [][NextAddr]_vars

\* The write lock of the command buffer: the instrumenting call takes it before Create
\* and gives it back after Restore; another thread changes the tracked state under it.
InitLock ==
    /\ InitCommandBuffer
    /\ gpuav = DefaultGpuav
    /\ addr = NoAddr
    /\ lock = "none"

\* the instrumenting call takes the write lock of the command buffer
GetWrite ==
    /\ pc = <<>>
    /\ lock = "none"
    /\ lock' = "gpuav"
    /\ UNCHANGED <<cb_vars, dev, snap, emitted, pre, pc, args, gpuav, addr, captured>>

\* the instrumenting call returns: the snapshot is gone and the lock is free
Release ==
    /\ pc # <<>>
    /\ pc[Len(pc)] = "Restore"
    /\ lock = "gpuav"
    /\ lock' = "none"
    /\ snap' = EmptySnapshot
    /\ emitted' = <<>>
    /\ pc' = <<"Done">>
    /\ args' = <<>>
    /\ captured' = <<>>
    /\ UNCHANGED <<cb_vars, dev, pre, gpuav, addr>>

\* another thread that resets the command buffer without taking its lock
OtherThreadReset_Unlocked ==
    /\ lastBound # [l \in LvlBindPoints |-> EmptyLastBound]
    /\ lastBound' = [l \in LvlBindPoints |-> EmptyLastBound]
    /\ push_constant_data' = <<>>
    /\ push_constant_data_ranges' = <<>>
    /\ dev' = DevOf(lastBound', push_constant_data')
    /\ UNCHANGED <<snap, emitted, pre, pc, args, gpuav, addr, lock, captured>>

\* another thread resets the command buffer: it needs the write lock for the change
OtherThreadReset ==
    /\ lock = "none"
    /\ lastBound # [l \in LvlBindPoints |-> EmptyLastBound]
    /\ lastBound' = [l \in LvlBindPoints |-> EmptyLastBound]
    /\ push_constant_data' = <<>>
    /\ push_constant_data_ranges' = <<>>
    /\ dev' = DevOf(lastBound', push_constant_data')
    /\ UNCHANGED <<snap, emitted, pre, pc, args, gpuav, addr, lock, captured>>

NextLock ==
    \/ GetWrite
    \/ Next
    \/ Release
    \/ OtherThreadReset

SpecLock == InitLock /\ [][NextLock]_vars

\* Command buffers whose last-bound push-descriptor object is active, with a per_set
\* entry that is the push descriptor set or with none
LastBoundsPush(lv) ==
    { [pipeline_state |-> p,
       pipeline_layout |-> IF ps = <<>> THEN VK_NULL_HANDLE ELSE AppLayout,
       per_set |-> ps,
       push_descriptor_set |-> <<[writes |-> <<AppWrite>>]>>,
       shader_object_states |-> sh] :
      p \in PipelineStates, ps \in PerSetLists, sh \in ShaderStates(lv) }

InitPush ==
    /\ \E b \in LvlBindPoints : \E lb \in LastBoundsPush(b) :
          lastBound = [l \in LvlBindPoints |-> IF l = b THEN lb ELSE EmptyLastBound]
    /\ \/ push_constant_data_ranges = <<>> /\ push_constant_data = <<>>
       \/ \E r \in RangeLists : push_constant_data_ranges = <<r>> /\ push_constant_data = PushedData(r)
    /\ dev = DevOf(lastBound, push_constant_data)
    /\ snap = EmptySnapshot
    /\ emitted = <<>>
    /\ pre = dev
    /\ pc = <<>>
    /\ args = <<>>
    /\ captured = <<>>
    /\ gpuav = DefaultGpuav
    /\ addr = NoAddr
    /\ lock = "gpuav"

SpecPush == InitPush /\ [][Next]_vars

\* Changes of the command buffer between Create and Restore: everything is unbound, other
\* objects are bound in place of the captured ones, or other push constants are written.
DisturbKinds == {"unbind", "rebind", "push"}
OtherPipeline == 2

Disturbed(kind, lb) ==
    CASE kind = "unbind" -> EmptyLastBound
      [] kind = "rebind" ->
           [pipeline_state |-> <<[handle |-> OtherPipeline, push_constant_ranges |-> <<>>]>>,
            pipeline_layout |-> AppLayout,
            per_set |-> <<NormalSet(AppSet2, <<>>)>>,
            push_descriptor_set |-> <<>>,
            shader_object_states |-> NoShaders]
      [] kind = "push" -> lb

Disturb(kind) ==
    /\ pc = <<"Create">>
    /\ lock = "gpuav"
    /\ lastBound' = [l \in LvlBindPoints |->
                       IF l = ConvertToLvlBindPoint(snap.pipeline_bind_point_)
                       THEN Disturbed(kind, lastBound[l]) ELSE lastBound[l]]
    /\ push_constant_data' =
          IF kind = "push" THEN [k \in 1..PushBytes |-> DiagByte]
          ELSE IF kind = "unbind" THEN <<>> ELSE push_constant_data
    /\ push_constant_data_ranges' =
          IF kind = "push" THEN <<RangePool>>
          ELSE IF kind = "unbind" THEN <<>> ELSE push_constant_data_ranges
    /\ dev' = DevOf(lastBound', push_constant_data')
    /\ emitted' = <<>>
    /\ pc' = Append(pc, "Disturb")
    /\ args' = [kind |-> kind]
    /\ UNCHANGED <<snap, pre, gpuav, addr, lock, captured>>

NextReplay ==
    \/ Next
    \/ \E kind \in DisturbKinds : Disturb(kind)

SpecReplay == Init /\ [][NextReplay]_vars

-----------------------------------------------------------------------------
\* Properties

Last(seq) == seq[Len(seq)]
SnapshotTaken == pc # <<>> /\ pc[1] = "Create"
Restored == pc # <<>> /\ Last(pc) = "Restore"
\* the LastBound the snapshot was taken from
SnapLastBound == lastBound[ConvertToLvlBindPoint(snap.pipeline_bind_point_)]

IsBindPipeline(c) == c.op = "BindPipeline"
IsBindDescriptorSets(c) == c.op = "BindDescriptorSets"
IsPushDescriptorSet(c) == c.op = "PushDescriptorSet"
IsPushConstants(c) == c.op = "PushConstants"
IsBindShaders(c) == c.op = "BindShaders"

\* C1: after Create, the diagnostic commands with BindValidationCmdsCommonDescSet, and
\* Restore, the binding state of the command buffer is the state before the capture:
\* pipeline or shader objects, the set and dynamic offsets at every set index, the
\* push-constant bytes; in the pipeline model, the shader-object model and with nothing bound.
C1_InjectThenRestore ==
    pc = <<"Create", "Diagnostic", "Bind", "Restore">> => dev = pre

\* C2: Create followed immediately by Restore leaves the binding state as it was.
C2_RoundTrip ==
    pc = <<"Create", "Restore">> => dev = pre

\* C3: a snapshot never has both a pipeline and shader objects; with shader objects it
\* holds nothing of the pipeline variant; it has neither only if the command buffer has
\* no pipeline and no shader object bound for the bind point.
C3_MutualExclusion ==
    SnapshotTaken =>
        /\ ~(snap.pipeline_ # VK_NULL_HANDLE /\ snap.shader_objects_ # <<>>)
        /\ snap.shader_objects_ # <<>> =>
              /\ snap.descriptor_sets_ = <<>> /\ snap.dynamic_offsets_ = <<>>
              /\ snap.push_descriptor_set_writes_ = <<>>
              /\ snap.push_constants_data_ = <<>> /\ snap.push_constants_ranges_ = <<>>
        /\ (snap.pipeline_ = VK_NULL_HANDLE /\ snap.shader_objects_ = <<>>) =>
              /\ SnapLastBound.pipeline_state = <<>>
              /\ \A st \in AllStages : SnapLastBound.shader_object_states[st] = <<>>

\* the tracked state holds a pipeline and a shader object at once, and a snapshot was taken
C3_Witness ==
    /\ SnapshotTaken
    /\ SnapLastBound.pipeline_state # <<>>
    /\ SnapLastBound.shader_object_states[VK_SHADER_STAGE_VERTEX_BIT] # <<>>
    /\ snap.pipeline_ = AppPipeline

\* the bound pipeline's layout ranges are not the ranges the command buffer last wrote
RangesDiffer ==
    /\ SnapLastBound.pipeline_state # <<>>
    /\ <<PipelineLayoutState(SnapLastBound.pipeline_state[1]).push_constant_ranges>>
          # push_constant_data_ranges

\* C4: when the bound layout's push-constant ranges differ from the last-written ranges,
\* the snapshot holds no push-constant bytes and no ranges, and Restore issues no
\* push-constants command.
C4_PushConstantSafety ==
    (SnapshotTaken /\ RangesDiffer) =>
        /\ snap.push_constants_data_ = <<>>
        /\ snap.push_constants_ranges_ = <<>>
        /\ Restored => SelectSeq(emitted, IsPushConstants) = <<>>

\* Restore ran on a snapshot taken while the command buffer held push-constant bytes
\* written for other ranges than those of the bound layout
C4_Witness ==
    /\ Restored
    /\ RangesDiffer
    /\ push_constant_data # <<>>
    /\ \E k \in 1..Len(SnapLastBound.pipeline_state[1].push_constant_ranges) :
          SnapLastBound.pipeline_state[1].push_constant_ranges[k].size > 0

\* the set indices the application has a descriptor set bound at
BoundIndices == { i \in 0..(Len(SnapLastBound.per_set) - 1) :
                    SnapLastBound.per_set[i + 1].bound_descriptor_set # <<>> }

\* C5: a Create that follows BindValidationCmdsCommonDescSet reports exactly the
\* application's descriptor sets, each at its index with its dynamic offsets, and never
\* the diagnostic descriptor set.
C5_DiagnosticBindIsolation ==
    pc = <<"Create", "Bind", "Create">> =>
        /\ Len(snap.descriptor_sets_) = Cardinality(BoundIndices)
        /\ Len(snap.dynamic_offsets_) = Len(snap.descriptor_sets_)
        /\ \A i \in BoundIndices : \E k \in 1..Len(snap.descriptor_sets_) :
              /\ snap.descriptor_sets_[k].second = i
              /\ snap.descriptor_sets_[k].first = VkHandle(SnapLastBound.per_set[i + 1].bound_descriptor_set[1])
              /\ snap.dynamic_offsets_[k] = SnapLastBound.per_set[i + 1].dynamicOffsets
        /\ \A k \in 1..Len(snap.descriptor_sets_) : snap.descriptor_sets_[k].first # DiagSet

Resolved == pc = <<"GetBufferDeviceAddress">>
CoreTier == gpuav.api_version >= VK_API_VERSION_1_2
ExtTier == gpuav.vk_ext_buffer_device_address # "kNotEnabled"
KhrTier == gpuav.vk_khr_buffer_device_address # "kNotEnabled"

\* C6: GetBufferDeviceAddress makes at most one dispatch, that of the first available
\* tier in the order core (api_version >= 1.2), VK_EXT_buffer_device_address,
\* VK_KHR_buffer_device_address; a dispatched result is not 0; with no tier there is no
\* dispatch and the result is 0.
C6_AddressPriority ==
    Resolved =>
        /\ Len(addr.calls) <= 1
        /\ CoreTier => addr.calls = <<"DispatchGetBufferDeviceAddress">>
        /\ (~CoreTier /\ ExtTier) => addr.calls = <<"DispatchGetBufferDeviceAddressEXT">>
        /\ (~CoreTier /\ ~ExtTier /\ KhrTier) => addr.calls = <<"DispatchGetBufferDeviceAddressKHR">>
        /\ (CoreTier \/ ExtTier \/ KhrTier) => addr.result # 0
        /\ (~CoreTier /\ ~ExtTier /\ ~KhrTier) => (addr.calls = <<>> /\ addr.result = 0)

\* resolved with VK_KHR_buffer_device_address as the only tier
C6_Witness ==
    /\ Resolved
    /\ ~CoreTier /\ ~ExtTier /\ KhrTier
    /\ addr.calls = <<"DispatchGetBufferDeviceAddressKHR">>

\* C7: BindValidationCmdsCommonDescSet, for indices below indices_count, dispatches exactly
\* one bind-descriptor-sets: first set the reserved index, one set (the diagnostic set),
\* dynamic offsets [cmd_index * 4, error_logger_index * 4] as exact products; no other
\* set index, no pipeline, no shader object and no push constant changes.
C7_BindValidationCmds ==
    [][ pc' = Append(pc, "Bind") =>
          /\ args'.cmd_index < indices_count /\ args'.error_logger_index < indices_count
          /\ emitted' = << [op |-> "BindDescriptorSets", commandBuffer |-> CmdBuffer,
                            bind_point |-> args'.bind_point, layout |-> args'.pipeline_layout,
                            firstSet |-> kDiagCommonDescriptorSet, sets |-> <<DiagSet>>,
                            dynamicOffsets |-> <<args'.cmd_index * 4, args'.error_logger_index * 4>>] >>
          /\ dev'.slots[args'.bind_point][kDiagCommonDescriptorSet] =
                [set |-> DiagSet, writes |-> <<>>,
                 dynamicOffsets |-> <<args'.cmd_index * 4, args'.error_logger_index * 4>>]
          /\ \A bp \in VkBindPoints : \A i \in Slots :
                (bp # args'.bind_point \/ i # kDiagCommonDescriptorSet)
                   => dev'.slots[bp][i] = dev.slots[bp][i]
          /\ dev'.pipeline = dev.pipeline
          /\ dev'.shaders = dev.shaders
          /\ dev'.push_constants = dev.push_constants
          /\ UNCHANGED <<cb_vars, snap>>
      ]_vars

\* the bind ran with the largest command index over an application set at the reserved
\* index, with another application set bound next to it
C7_Witness ==
    /\ pc = <<"Create", "Bind">>
    /\ args.cmd_index = indices_count - 1
    /\ args.error_logger_index = 0
    /\ pre.slots[args.bind_point][kDiagCommonDescriptorSet].set = AppSet2
    /\ \E i \in Slots : i # kDiagCommonDescriptorSet /\ dev.slots[args.bind_point][i].set = AppSet

\* positions of the captured entries with a handle, and of the captured ranges with a size
NonNullEntries == { k \in 1..Len(snap.descriptor_sets_) : snap.descriptor_sets_[k].first # VK_NULL_HANDLE }
CapturedRanges == IF snap.push_constants_ranges_ = <<>> THEN <<>> ELSE snap.push_constants_ranges_[1]
NonZeroRanges == { k \in 1..Len(CapturedRanges) : CapturedRanges[k].size # 0 }
\* the j-th smallest member of a set of positions
Nth(K, j) == CHOOSE k \in K : Cardinality({m \in K : m < k}) = j - 1

Rank(c) ==
    CASE c.op = "BindPipeline" -> 0
      [] c.op = "BindShaders" -> 0
      [] c.op = "BindDescriptorSets" -> 1
      [] c.op = "PushDescriptorSet" -> 2
      [] c.op = "PushConstants" -> 3

\* C8: for a pipeline-variant snapshot Restore emits one bind-pipeline first, then one
\* bind-descriptor-sets per captured non-null set (its index, its dynamic offsets,
\* ascending indices), then at most one push-descriptor-set, then one push-constants per
\* range of non-zero size, and nothing else; whatever the snapshot, nothing precedes the
\* pipeline or shader rebind.
C8_ReplayOrder ==
    Restored =>
        /\ emitted # <<>> => (IsBindPipeline(emitted[1]) \/ IsBindShaders(emitted[1]))
        /\ snap.pipeline_ # VK_NULL_HANDLE =>
              LET binds == SelectSeq(emitted, IsBindDescriptorSets)
                  pushes == SelectSeq(emitted, IsPushConstants)
                  pds == SelectSeq(emitted, IsPushDescriptorSet)
              IN /\ emitted[1] = [op |-> "BindPipeline", commandBuffer |-> snap.cmd_buffer_,
                                  bind_point |-> snap.pipeline_bind_point_, pipeline |-> snap.pipeline_]
                 /\ Len(SelectSeq(emitted, IsBindPipeline)) = 1
                 /\ SelectSeq(emitted, IsBindShaders) = <<>>
                 /\ \A i, j \in 1..Len(emitted) : i < j => Rank(emitted[i]) <= Rank(emitted[j])
                 /\ Len(binds) = Cardinality(NonNullEntries)
                 /\ \A j \in 1..Len(binds) :
                       LET k == Nth(NonNullEntries, j)
                       IN /\ binds[j].firstSet = snap.descriptor_sets_[k].second
                          /\ binds[j].sets = <<snap.descriptor_sets_[k].first>>
                          /\ binds[j].dynamicOffsets = snap.dynamic_offsets_[k]
                          /\ binds[j].bind_point = snap.pipeline_bind_point_
                          /\ binds[j].layout = snap.pipeline_layout
                 /\ \A i, j \in 1..Len(binds) : i < j => binds[i].firstSet < binds[j].firstSet
                 /\ Len(pds) <= 1
                 /\ Len(pushes) = Cardinality(NonZeroRanges)
                 /\ \A j \in 1..Len(pushes) :
                       LET k == Nth(NonZeroRanges, j)
                       IN /\ pushes[j].offset = CapturedRanges[k].offset
                          /\ pushes[j].size = CapturedRanges[k].size
                          /\ pushes[j].stageFlags = CapturedRanges[k].stageFlags

\* a replay with all four kinds of command
C8_Witness ==
    /\ Restored
    /\ snap.pipeline_ # VK_NULL_HANDLE
    /\ SelectSeq(emitted, IsBindDescriptorSets) # <<>>
    /\ SelectSeq(emitted, IsPushDescriptorSet) # <<>>
    /\ Len(SelectSeq(emitted, IsPushConstants)) = 2

\* C9: Restore never binds a captured descriptor-set entry whose handle is null, and the
\* entries after it, the push descriptors and the push constants are replayed all the same.
C9_NullSetSkip ==
    Restored =>
        LET binds == SelectSeq(emitted, IsBindDescriptorSets)
        IN /\ \A j \in 1..Len(binds) : \A m \in 1..Len(binds[j].sets) : binds[j].sets[m] # VK_NULL_HANDLE
           /\ \A k \in 1..Len(snap.descriptor_sets_) :
                 snap.descriptor_sets_[k].first = VK_NULL_HANDLE =>
                    /\ \A j \in 1..Len(binds) : binds[j].firstSet # snap.descriptor_sets_[k].second
                    /\ \A k2 \in NonNullEntries : \E j \in 1..Len(binds) :
                          /\ binds[j].firstSet = snap.descriptor_sets_[k2].second
                          /\ binds[j].sets = <<snap.descriptor_sets_[k2].first>>
                    /\ snap.push_descriptor_set_writes_ # <<>> =>
                          \E j \in 1..Len(emitted) :
                             /\ IsPushDescriptorSet(emitted[j])
                             /\ emitted[j].writes = snap.push_descriptor_set_writes_
                    /\ \A r \in NonZeroRanges : \E j \in 1..Len(emitted) :
                          /\ IsPushConstants(emitted[j])
                          /\ emitted[j].offset = CapturedRanges[r].offset

\* Restore ran on a snapshot whose first entry has a null handle, followed by an entry
\* with a handle, with push-descriptor writes and push constants captured
C9_Witness ==
    /\ Restored
    /\ Len(snap.descriptor_sets_) = 2
    /\ snap.descriptor_sets_[1].first = VK_NULL_HANDLE
    /\ snap.descriptor_sets_[2].first # VK_NULL_HANDLE
    /\ snap.push_descriptor_set_writes_ # <<>>
    /\ NonZeroRanges # {}

\* C10: Restore issues no push-constants command for a captured range of size 0, and
\* exactly one, with the range's offset, size and stage flags, for every other captured range.
C10_ZeroSizeSkip ==
    Restored =>
        LET pushes == SelectSeq(emitted, IsPushConstants)
        IN /\ \A j \in 1..Len(pushes) : pushes[j].size # 0
           /\ \A k \in 1..Len(CapturedRanges) :
                 Cardinality({ j \in 1..Len(pushes) :
                                 /\ pushes[j].offset = CapturedRanges[k].offset
                                 /\ pushes[j].size = CapturedRanges[k].size
                                 /\ pushes[j].stageFlags = CapturedRanges[k].stageFlags })
                   = IF CapturedRanges[k].size = 0 THEN 0 ELSE 1
           /\ Len(pushes) = Cardinality(NonZeroRanges)

\* Restore ran on a snapshot with a zero-size range and a range of non-zero size
C10_Witness ==
    /\ Restored
    /\ \E k \in 1..Len(CapturedRanges) : CapturedRanges[k].size = 0
    /\ NonZeroRanges # {}
    /\ SelectSeq(emitted, IsPushConstants) # <<>>

\* C11: Restore leaves the snapshot as it is, and a second Restore on the same snapshot
\* emits the command sequence of the first and leaves the binding state the first left.
C11_IdempotentReplay ==
    [][ pc' = Append(pc, "Restore") =>
          /\ snap' = snap
          /\ Restored => (emitted' = emitted /\ dev' = dev)
      ]_vars

\* Restore ran twice after the diagnostic commands, on a snapshot that replays a pipeline,
\* a descriptor set and push constants
C11_Witness ==
    /\ pc = <<"Create", "Diagnostic", "Restore", "Restore">>
    /\ SelectSeq(emitted, IsBindPipeline) # <<>>
    /\ SelectSeq(emitted, IsBindDescriptorSets) # <<>>
    /\ SelectSeq(emitted, IsPushConstants) # <<>>

\* C12: Create changes nothing of the command buffer's tracked state (last-bound pipeline,
\* per-set bindings and dynamic offsets, push descriptor set, push-constant data and
\* ranges, bound shader objects), dispatches no command and leaves the binding state alone.
C12_CaptureReadOnly ==
    [][ pc' = Append(pc, "Create") =>
          /\ lastBound' = lastBound
          /\ push_constant_data' = push_constant_data
          /\ push_constant_data_ranges' = push_constant_data_ranges
          /\ emitted' = <<>>
          /\ dev' = dev
      ]_vars

\* Create captured a pipeline, a descriptor set with dynamic offsets, push-descriptor
\* writes and push-constant bytes, and the tracked state still holds them all
C12_Witness ==
    /\ pc = <<"Create">>
    /\ snap.pipeline_ = AppPipeline
    /\ \E k \in 1..Len(snap.dynamic_offsets_) : snap.dynamic_offsets_[k] # <<>>
    /\ snap.push_descriptor_set_writes_ # <<>>
    /\ snap.push_constants_data_ # <<>>
    /\ push_constant_data = snap.push_constants_data_
    /\ SnapLastBound.push_descriptor_set # <<>>
    /\ emitted = <<>>

\* no pipeline and no shader object is bound for the captured bind point
NothingBound ==
    /\ SnapLastBound.pipeline_state = <<>>
    /\ \A st \in AllStages : SnapLastBound.shader_object_states[st] = <<>>

\* C13: with no pipeline and no shader object bound for the bind point, Create yields a
\* snapshot with a null pipeline and no shader objects and nothing else captured, and
\* Restore dispatches no command and leaves the binding state as it found it.
C13_EmptySnapshot ==
    (SnapshotTaken /\ NothingBound) =>
        /\ snap = [EmptySnapshot EXCEPT !.cmd_buffer_ = CmdBuffer,
                                        !.pipeline_bind_point_ = snap.pipeline_bind_point_]
        /\ snap.pipeline_ = VK_NULL_HANDLE
        /\ snap.shader_objects_ = <<>>
        /\ Restored => emitted = <<>>
        /\ pc = <<"Create", "Restore">> => dev = pre

\* Restore ran after the diagnostic commands on a snapshot of a command buffer that has
\* descriptor sets and push constants, but no pipeline and no shader object
C13_Witness ==
    /\ pc = <<"Create", "Diagnostic", "Bind", "Restore">>
    /\ NothingBound
    /\ SnapLastBound.per_set # <<>>
    /\ push_constant_data # <<>>
    /\ emitted = <<>>

\* the stages of the graphics bind point that have a shader object bound
BoundGraphicsStages ==
    { st \in AllStages : /\ StageBindPoint(st) = VK_PIPELINE_BIND_POINT_GRAPHICS
                         /\ SnapLastBound.shader_object_states[st] # <<>> }

\* C14: with no pipeline bound, Create on the graphics bind point captures every bound
\* graphics-stage shader object, once each; on the compute bind point the compute shader
\* object if and only if one is bound; on any other bind point no shader object.
C14_ShaderCapture ==
    (SnapshotTaken /\ SnapLastBound.pipeline_state = <<>>) =>
        LET objs == snap.shader_objects_
            lv == ConvertToLvlBindPoint(snap.pipeline_bind_point_)
            compute == SnapLastBound.shader_object_states[VK_SHADER_STAGE_COMPUTE_BIT]
        IN /\ lv = BindPoint_Graphics =>
                 /\ Len(objs) = Cardinality(BoundGraphicsStages)
                 /\ \A st \in BoundGraphicsStages : \E k \in 1..Len(objs) :
                       objs[k] = SnapLastBound.shader_object_states[st][1]
           /\ lv = BindPoint_Compute =>
                 /\ Len(objs) <= 1
                 /\ Len(objs) = 1 <=> compute # <<>>
                 /\ Len(objs) = 1 => objs[1] = compute[1]
           /\ lv \notin {BindPoint_Graphics, BindPoint_Compute} => objs = <<>>

\* Create ran on the compute bind point with the compute shader object bound and no pipeline
C14_Witness ==
    /\ pc = <<"Create">>
    /\ snap.pipeline_bind_point_ = VK_PIPELINE_BIND_POINT_COMPUTE
    /\ SnapLastBound.pipeline_state = <<>>
    /\ SnapLastBound.shader_object_states[VK_SHADER_STAGE_COMPUTE_BIT] # <<>>
    /\ snap.shader_objects_ = <<ShaderObject(VK_SHADER_STAGE_COMPUTE_BIT)>>

\* C15: for a snapshot with shader objects Restore dispatches exactly one command, a
\* bind-shader-objects whose stage count is the number of captured objects and whose i-th
\* stage and handle are those of the i-th captured object; no bind-pipeline, no
\* bind-descriptor-sets, no push-descriptor-set and no push-constants.
C15_ShaderReplay ==
    (Restored /\ snap.shader_objects_ # <<>>) =>
        /\ Len(emitted) = 1
        /\ IsBindShaders(emitted[1])
        /\ emitted[1].commandBuffer = snap.cmd_buffer_
        /\ Len(emitted[1].stages) = Len(snap.shader_objects_)
        /\ Len(emitted[1].shaders) = Len(snap.shader_objects_)
        /\ \A i \in 1..Len(snap.shader_objects_) :
              /\ emitted[1].stages[i] = snap.shader_objects_[i].stage
              /\ emitted[1].shaders[i] = snap.shader_objects_[i].handle
        /\ \A j \in 1..Len(emitted) :
              ~(IsBindPipeline(emitted[j]) \/ IsBindDescriptorSets(emitted[j])
                \/ IsPushDescriptorSet(emitted[j]) \/ IsPushConstants(emitted[j]))

\* Restore replayed two graphics shader objects over the diagnostic pipeline, for a
\* command buffer that also has descriptor sets bound
C15_Witness ==
    /\ pc = <<"Create", "Diagnostic", "Restore">>
    /\ Len(snap.shader_objects_) = 2
    /\ SnapLastBound.per_set # <<>>
    /\ Len(emitted) = 1
    /\ dev.pipeline[snap.pipeline_bind_point_] = VK_NULL_HANDLE

\* C17: for every captured range of offset o and non-zero size s, Restore's push-constants
\* command for the range writes, at bytes [o, o + s), the bytes the command buffer held at
\* [o, o + s) when Create ran.
C17_PushConstantPayload ==
    Restored =>
        \A k \in NonZeroRanges :
            \E j \in 1..Len(emitted) :
                /\ IsPushConstants(emitted[j])
                /\ emitted[j].offset = CapturedRanges[k].offset
                /\ emitted[j].size = CapturedRanges[k].size
                /\ \A i \in 1..CapturedRanges[k].size :
                      emitted[j].values[i] = captured[2][CapturedRanges[k].offset + i]

CapturedSnapshot == CreateSnapshot(captured[1], captured[2], captured[3], captured[4])

\* C19: the snapshot, and the command sequence Restore emits, are those determined by the
\* binding state Create read, whatever was unbound, bound or pushed on the command buffer
\* between Create and Restore; two runs that capture the same state replay the same commands.
C19_ReplayFromSnapshot ==
    SnapshotTaken =>
        /\ snap = CapturedSnapshot
        /\ Restored => emitted = RestoreCmds(CapturedSnapshot)

\* Restore replayed a pipeline, a descriptor set and push constants after everything the
\* snapshot holds was unbound on the command buffer
C19_Witness ==
    /\ pc = <<"Create", "Disturb", "Restore">>
    /\ lastBound = [l \in LvlBindPoints |-> EmptyLastBound]
    /\ push_constant_data = <<>>
    /\ SelectSeq(emitted, IsBindPipeline) # <<>>
    /\ SelectSeq(emitted, IsBindDescriptorSets) # <<>>
    /\ SelectSeq(emitted, IsPushConstants) # <<>>

====
